---- MODULE Spec2Model ----
(***************************************************************************)
(* KoboExtractor (src/koboextractor/__init__.py): get_choices,             *)
(* get_questions and label_result as state machines.                       *)
(*                                                                         *)
(* Python values.  A str is a sequence of one-character strings, so that   *)
(* split and join are computed.  A dict is a function on its keys; a key   *)
(* that is absent from the dict is absent from the DOMAIN.  A dict whose   *)
(* iteration order is observed (a bucket of the choice index, the          *)
(* 'choices' of a labeled answer) is a record [keys, val]: the keys in     *)
(* insertion order and the function.  An exception is the name of its      *)
(* class.                                                                  *)
(***************************************************************************)
EXTENDS Integers, Sequences, FiniteSets, TLC

VARIABLES
    \* get_questions
    survey,            \* the elements of asset['content']['survey'] read so far
    unpack_multiples,  \* argument of get_questions
    choices,           \* get_choices(asset), used when unpack_multiples
    sequence,
    root_group,
    group_levels,      \* stack of references to groups: each the path of the group from the root
    tmp_group,         \* reference to the current group: its path from the root
    q_pc,              \* "loop", "returned" or "raised"
    q_exc,             \* the exception get_questions raised, "" when none
    \* label_result
    unlabeled_result,  \* the items of the raw response read so far
    choice_lists,
    questions,
    l_unpack_multiples,\* argument unpack_multiples of label_result
    meta,
    results,
    l_pc,              \* "loop", "returned" or "raised"
    l_exc,             \* the exception label_result raised, "" when none
    output,            \* the returned {'meta', 'results'}, << >> before the return
    calls,             \* the calls of label_result made so far: arguments and outcome
    \* get_choices
    c_choices,         \* the entries of asset['content']['choices'] read so far
    c_choice_lists,
    c_sequence,
    c_pc,              \* "loop" or "returned"
    \* sort_results_by_time
    unsorted_results,
    reverse,
    sorted_results,
    s_exc,             \* the exception sort_results_by_time raised, "" when none
    s_pc               \* "called", "returned" or "raised"

q_vars == <<survey, unpack_multiples, choices, sequence, root_group, group_levels,
            tmp_group, q_pc, q_exc>>
l_vars == <<unlabeled_result, choice_lists, questions, l_unpack_multiples, meta,
            results, l_pc, l_exc, output>>
c_vars == <<c_choices, c_choice_lists, c_sequence, c_pc>>
s_vars == <<unsorted_results, reverse, sorted_results, s_exc, s_pc>>
\* the variables of the operations other than get_questions and label_result
x_vars == <<calls, c_vars, s_vars>>
vars == <<q_vars, l_vars, x_vars>>

----------------------------------------------------------------------------
(* Python built-ins *)

None == <<"None">>      \* no str: every element of a str is one character

EmptyDict == << >>

Has(d, k) == k \in DOMAIN d

\* d[k] = v
Put(d, k, v) == [x \in (DOMAIN d) \cup {k} |-> IF x = k THEN v ELSE d[x]]

Range(s) == {s[i] : i \in DOMAIN s}

\* an insertion-ordered dict: d[k] = v keeps the place of a key already present
EmptyODict == [keys |-> << >>, val |-> EmptyDict]

OPut(d, k, v) ==
    [keys |-> IF Has(d.val, k) THEN d.keys ELSE Append(d.keys, k),
     val  |-> Put(d.val, k, v)]

RECURSIVE split_from(_, _, _)
split_from(s, sep, acc) ==
    IF s = << >> THEN <<acc>>
    ELSE IF Head(s) = sep THEN <<acc>> \o split_from(Tail(s), sep, << >>)
    ELSE split_from(Tail(s), sep, Append(acc, Head(s)))

\* s.split(sep)
split(s, sep) == split_from(s, sep, << >>)

RECURSIVE split_ws_from(_, _)
split_ws_from(s, acc) ==
    LET word == IF acc = << >> THEN << >> ELSE <<acc>>
    IN  IF s = << >> THEN word
        ELSE IF Head(s) = " " THEN word \o split_ws_from(Tail(s), << >>)
        ELSE split_ws_from(Tail(s), Append(acc, Head(s)))

\* s.split(): runs of whitespace separate, no empty words
split_ws(s) == split_ws_from(s, << >>)

RECURSIVE join_no_separator(_, _)
\* join that leaves the separator out
join_no_separator(sep, segs) ==
    IF segs = << >> THEN << >> ELSE segs[1] \o join_no_separator(sep, Tail(segs))

RECURSIVE join(_, _)
\* sep.join(segs)
join(sep, segs) ==
    IF segs = << >> THEN << >>
    ELSE IF Len(segs) = 1 THEN segs[1]
    ELSE segs[1] \o <<sep>> \o join(sep, Tail(segs))

\* s.startswith(p)
startswith(s, p) == Len(p) <= Len(s) /\ SubSeq(s, 1, Len(p)) = p

RECURSIVE list_index(_, _, _)
list_index(l, x, i) ==
    IF i > Len(l) THEN 0 ELSE IF l[i] = x THEN i ELSE list_index(l, x, i + 1)

\* remove that drops every occurrence of x
list_remove_all(l, x) ==
    IF list_index(l, x, 1) = 0 THEN [exc |-> "ValueError", list |-> l]
    ELSE [exc |-> "", list |-> SelectSeq(l, LAMBDA y : y # x)]

\* l.remove(x): the first occurrence goes; ValueError when there is none
list_remove(l, x) ==
    LET i == list_index(l, x, 1)
    IN  IF i = 0 THEN [exc |-> "ValueError", list |-> l]
        ELSE [exc |-> "", list |-> SubSeq(l, 1, i - 1) \o SubSeq(l, i + 1, Len(l))]

\* ord(c) of the characters of the timestamps
ord(c) ==
    CASE c = "-" -> 45
      [] c = "0" -> 48
      [] c = "1" -> 49
      [] c = "2" -> 50
      [] c = "9" -> 57
      [] c = ":" -> 58
      [] c = "T" -> 84

\* a < b for str: by the first character that differs, a proper prefix comes first
RECURSIVE str_lt(_, _)
str_lt(a, b) ==
    IF a = << >> THEN b # << >>
    ELSE IF b = << >> THEN FALSE
    ELSE IF ord(Head(a)) # ord(Head(b)) THEN ord(Head(a)) < ord(Head(b))
    ELSE str_lt(Tail(a), Tail(b))

\* x is put in front of e: its key is smaller, or greater when reverse
sorts_before(kx, ke, rev) == IF rev THEN str_lt(ke, kx) ELSE str_lt(kx, ke)

\* x inserted into the sorted list l behind every element it is not put in front of
RECURSIVE insert_sorted(_, _, _, _)
insert_sorted(l, x, key, rev) ==
    IF l = << >> THEN <<x>>
    ELSE IF sorts_before(x[key], Head(l)[key], rev) THEN <<x>> \o l
    ELSE <<Head(l)>> \o insert_sorted(Tail(l), x, key, rev)

RECURSIVE sorted_from(_, _, _, _)
sorted_from(done, rest, key, rev) ==
    IF rest = << >> THEN done
    ELSE sorted_from(insert_sorted(done, Head(rest), key, rev), Tail(rest), key, rev)

RECURSIVE list_reversed(_)
list_reversed(l) == IF l = << >> THEN << >> ELSE Append(list_reversed(Tail(l)), Head(l))

\* a variant that sorts ascending and reverses the result when reverse is true
sorted_then_reversed(l, key, rev) ==
    IF \E i \in DOMAIN l : ~Has(l[i], key) THEN [exc |-> "KeyError", list |-> << >>]
    ELSE [exc |-> "",
          list |-> IF rev THEN list_reversed(sorted_from(<< >>, l, key, FALSE))
                   ELSE sorted_from(<< >>, l, key, FALSE)]

\* sorted(l, key=lambda result: result[key], reverse=rev): a new list, stable in
\* both directions; the keys are computed first, KeyError when one is missing
sorted_by_key(l, key, rev) ==
    IF \E i \in DOMAIN l : ~Has(l[i], key) THEN [exc |-> "KeyError", list |-> << >>]
    ELSE [exc |-> "", list |-> sorted_from(<< >>, l, key, rev)]

----------------------------------------------------------------------------
(* get_choices *)

choice_label(choice) == IF Has(choice, "label") THEN choice.label[1] ELSE None

\* a variant that keeps the entry stored first under a list name and code
get_choices_step_keep_first(st, choice) ==
    LET lists  == IF Has(st.choice_lists, choice.list_name) THEN st.choice_lists
                  ELSE Put(st.choice_lists, choice.list_name, EmptyODict)
        old    == lists[choice.list_name]
        bucket == IF Has(old.val, choice.name) THEN old
                  ELSE OPut(old, choice.name,
                            [label |-> choice_label(choice), sequence |-> st.sequence])
    IN  [choice_lists |-> Put(lists, choice.list_name, bucket),
         sequence     |-> st.sequence + 1]

\* one pass of the loop of get_choices over the choice definition `choice`
get_choices_step(st, choice) ==
    LET lists  == IF Has(st.choice_lists, choice.list_name) THEN st.choice_lists
                  ELSE Put(st.choice_lists, choice.list_name, EmptyODict)
        bucket == OPut(lists[choice.list_name], choice.name,
                       [label |-> choice_label(choice), sequence |-> st.sequence])
    IN  [choice_lists |-> Put(lists, choice.list_name, bucket),
         sequence     |-> st.sequence + 1]

RECURSIVE get_choices_from(_, _)
get_choices_from(st, cs) ==
    IF cs = << >> THEN st.choice_lists
    ELSE get_choices_from(get_choices_step(st, Head(cs)), Tail(cs))

\* get_choices(asset), cs = asset['content']['choices']
get_choices(cs) == get_choices_from([choice_lists |-> EmptyDict, sequence |-> 0], cs)

----------------------------------------------------------------------------
(* get_questions *)

RECURSIVE get_node(_, _)
\* the group a reference (a path of group codes from the root) points to
get_node(tree, path) ==
    IF path = << >> THEN tree ELSE get_node(tree.groups[Head(path)], Tail(path))

RECURSIVE set_node(_, _, _)
\* the tree after the group a reference points to has become `node`
set_node(tree, path, node) ==
    IF path = << >> THEN node
    ELSE Put(tree, "groups", Put(tree.groups, Head(path),
                                 set_node(tree.groups[Head(path)], Tail(path), node)))

\* the code with '$autoname' preferred to 'name'
qn_name_autoname_first(qn) ==
    IF Has(qn, "autoname") THEN qn.autoname
    ELSE IF Has(qn, "name") THEN qn.name
    ELSE None

qn_name(qn) ==
    IF Has(qn, "name") THEN qn.name
    ELSE IF Has(qn, "autoname") THEN qn.autoname
    ELSE None

\* the truth value of a name: None and '' are false
truthy(name) == name # None /\ name # << >>

is_begin(qn) == qn.type = "begin_group" \/ qn.type = "begin_repeat"
is_end(qn)   == qn.type = "end_group" \/ qn.type = "end_repeat"

\* a counter that is not incremented
next_sequence_same(n) == n

next_sequence(n) == n + 1

new_group(qn, seq) ==
    LET g == [repeat |-> (qn.type = "begin_repeat"), sequence |-> seq]
    IN  IF Has(qn, "label") THEN Put(g, "label", qn.label[1]) ELSE g

begin_step(st, qn) ==
    LET name  == qn_name(qn)
        cur0  == get_node(st.root_group, st.tmp_group)
        cur   == IF Has(cur0, "groups") THEN cur0 ELSE Put(cur0, "groups", EmptyDict)
        cur1  == Put(cur, "groups", Put(cur.groups, name, new_group(qn, st.sequence)))
    IN  [st EXCEPT !.root_group   = set_node(st.root_group, st.tmp_group, cur1),
                   !.group_levels = Append(st.group_levels, st.tmp_group),
                   !.tmp_group    = Append(st.tmp_group, name),
                   !.sequence     = next_sequence(st.sequence)]

\* a variant that reads the top of group_levels and leaves it there
end_step_without_pop(st) ==
    IF st.group_levels = << >> THEN [st EXCEPT !.exc = "IndexError"]
    ELSE [st EXCEPT !.tmp_group = st.group_levels[Len(st.group_levels)]]

end_step(st) ==
    IF st.group_levels = << >> THEN [st EXCEPT !.exc = "IndexError"]
    ELSE [st EXCEPT !.tmp_group    = st.group_levels[Len(st.group_levels)],
                    !.group_levels = SubSeq(st.group_levels, 1, Len(st.group_levels) - 1)]

RECURSIVE sort_by_sequence(_, _)
\* the keys of `todo` in ascending order of val[k].sequence
sort_by_sequence(val, todo) ==
    IF todo = {} THEN << >>
    ELSE LET k == CHOOSE k \in todo : \A j \in todo : val[k].sequence <= val[j].sequence
         IN  <<k>> \o sort_by_sequence(val, todo \ {k})

\* a variant that takes the choices in the order of the bucket, unsorted
sorted_choices_unsorted(bucket) == bucket.keys

\* sorted(choices[list_name].items(), key=lambda choice: choice[1]['sequence'])
sorted_choices(bucket) == sort_by_sequence(bucket.val, DOMAIN bucket.val)

question_step(st, qn, unpack, chs) ==
    LET name   == qn_name(qn)
        cur0   == get_node(st.root_group, st.tmp_group)
        cur    == IF Has(cur0, "questions") THEN cur0 ELSE Put(cur0, "questions", EmptyDict)
        st1    == [st EXCEPT !.root_group = set_node(st.root_group, st.tmp_group, cur)]
        q0     == [type |-> qn.type, sequence |-> st.sequence]
        q1     == IF Has(qn, "label") THEN Put(q0, "label", qn.label[1]) ELSE q0
        q2     == IF Has(qn, "select_from_list_name")
                  THEN Put(q1, "list_name", qn.select_from_list_name) ELSE q1
        seq1   == next_sequence(st.sequence)
        expand == unpack /\ qn.type = "select_multiple"
    IN  IF ~truthy(name) THEN [st1 EXCEPT !.exc = "AssertionError"]
        ELSE IF expand /\ ~Has(qn, "select_from_list_name") THEN [st1 EXCEPT !.exc = "KeyError"]
        ELSE IF expand /\ ~Has(chs, qn.select_from_list_name) THEN [st1 EXCEPT !.exc = "KeyError"]
        ELSE
        LET bucket == chs[qn.select_from_list_name]
            sorted == IF expand THEN sorted_choices(bucket) ELSE << >>
            new_choices == [c \in Range(sorted) |->
                               [label    |-> bucket.val[c].label,
                                type     |-> "select_multiple_option",
                                sequence |-> seq1 + list_index(sorted, c, 1) - 1]]
            q3     == IF expand THEN Put(q2, "choices", new_choices) ELSE q2
            seq2   == seq1 + Len(sorted)
            other  == Has(qn, "or_other") /\ qn.or_other
            q4     == IF other
                      THEN Put(q3, "other", [type |-> "_or_other", label |-> <<"O","t","h","e","r">>,
                                             sequence |-> seq2])
                      ELSE q3
            seq3   == IF other THEN next_sequence(seq2) ELSE seq2
        IN  [st1 EXCEPT !.root_group = set_node(st1.root_group, st.tmp_group,
                                           Put(cur, "questions", Put(cur.questions, name, q4))),
                        !.sequence   = seq3]

\* one pass of the loop of get_questions over the element `qn`
get_questions_step(st, qn, unpack, chs) ==
    IF is_begin(qn) THEN begin_step(st, qn)
    ELSE IF is_end(qn) THEN end_step(st)
    ELSE question_step(st, qn, unpack, chs)

get_questions_init ==
    [sequence |-> 0, root_group |-> EmptyDict, group_levels |-> << << >> >>,
     tmp_group |-> << >>, exc |-> ""]

RECURSIVE get_questions_from(_, _, _, _)
get_questions_from(st, qns, unpack, chs) ==
    IF qns = << >> \/ st.exc # "" THEN st
    ELSE get_questions_from(get_questions_step(st, Head(qns), unpack, chs), Tail(qns), unpack, chs)

\* get_questions(asset, unpack_multiples): the final state of its loop
get_questions(asset, unpack) ==
    get_questions_from(get_questions_init, asset.survey, unpack,
                       IF unpack THEN get_choices(asset.choices) ELSE EmptyDict)

----------------------------------------------------------------------------
(* label_result *)

\* a value of the raw response: a str, or a list of instances of a repeat
\* group, each instance the sequence of its (key, value) items
Str(s)  == [t |-> "str",  v |-> s]
List(l) == [t |-> "list", v |-> l]
isinstance_list(value) == value.t = "list"

Ok(v)    == [exc |-> "", val |-> v]
Raise(e) == [exc |-> e,  val |-> << >>]

unlabeled_question(question_code, value) ==
    [label |-> question_code, answer_code |-> value, answer_label |-> value]

RECURSIVE descend(_, _)
\* the loop of label_question over group_codes: tmp_qn at its end; found is
\* FALSE when a group code is no child group, exc is set when the lookup raises
descend(tmp_qn, group_codes) ==
    IF group_codes = << >> THEN [exc |-> "", found |-> TRUE, node |-> tmp_qn]
    ELSE IF ~Has(tmp_qn, "groups") THEN [exc |-> "KeyError", found |-> FALSE, node |-> tmp_qn]
    ELSE IF Has(tmp_qn.groups, Head(group_codes))
         THEN descend(tmp_qn.groups[Head(group_codes)], Tail(group_codes))
    ELSE [exc |-> "", found |-> FALSE, node |-> tmp_qn]

\* a 'select_one' answer that is never looked up
select_one_label_raw(tmp_qn, value, chl) == value

\* the answer label of a 'select_one' question
select_one_label(tmp_qn, value, chl) ==
    IF Has(tmp_qn, "list_name") /\ Has(chl, tmp_qn.list_name)
       /\ Has(chl[tmp_qn.list_name].val, value)
    THEN chl[tmp_qn.list_name].val[value].label
    ELSE value

RECURSIVE concat_labels(_, _, _, _)
\* the loop over value.split() of a 'select_multiple' question
concat_labels(chl, list_name, codes, answer_label) ==
    IF codes = << >> THEN Ok(answer_label)
    ELSE IF ~(Has(chl, list_name) /\ Has(chl[list_name].val, Head(codes))) THEN Raise("KeyError")
    ELSE LET label == chl[list_name].val[Head(codes)].label
         IN  IF label = None THEN Raise("TypeError")
             ELSE concat_labels(chl, list_name, Tail(codes), answer_label \o label \o <<";">>)

RECURSIVE concat_known(_, _, _)
\* the labels of the codes that are found, the others skipped
concat_known(chl, list_name, codes) ==
    IF codes = << >> THEN << >>
    ELSE (IF Has(chl, list_name) /\ Has(chl[list_name].val, Head(codes))
             /\ chl[list_name].val[Head(codes)].label # None
          THEN chl[list_name].val[Head(codes)].label \o <<";">> ELSE << >>)
         \o concat_known(chl, list_name, Tail(codes))

\* a 'select_multiple' answer label that keeps the partial concatenation
select_multiple_label_partial(list_name, value, chl) ==
    Ok(concat_known(chl, list_name, split_ws(value)))

\* the answer label of a 'select_multiple' question with a list name
select_multiple_label(list_name, value, chl) ==
    LET r == concat_labels(chl, list_name, split_ws(value), << >>)
    IN  IF r.exc = "KeyError" THEN Ok(value) ELSE r

Yes == <<"Y", "e", "s">>
No  == <<"N", "o">>

\* a choice compared with the whole raw value instead of its codes
selected_whole_value(choice_code, value) == choice_code = value

selected(choice_code, value) == choice_code \in Range(split_ws(value))

\* result_qn['choices'] of a 'select_multiple' question
unpack_choices(tmp_qn, list_name, value, chl) ==
    IF ~Has(chl, list_name) THEN Raise("KeyError")
    ELSE LET bucket == chl[list_name]
         IN  IF \E c \in DOMAIN bucket.val :
                    ~(Has(tmp_qn, "choices") /\ Has(tmp_qn.choices, c))
             THEN Raise("KeyError")
             ELSE Ok([keys |-> bucket.keys,
                      val  |-> [c \in DOMAIN bucket.val |->
                                   [sequence     |-> tmp_qn.choices[c].sequence,
                                    label        |-> bucket.val[c].label,
                                    answer_code  |-> IF selected(c, value) THEN 1 ELSE 0,
                                    answer_label |-> IF selected(c, value) THEN Yes ELSE No]]])

label_question(group_codes, question_code, value, qns, chl, unpack) ==
    LET d == descend(qns, group_codes)
    IN  IF d.exc # "" THEN Raise(d.exc)
        ELSE IF ~d.found THEN Ok(unlabeled_question(question_code, value))
        ELSE IF ~(Has(d.node, "questions") /\ Has(d.node.questions, question_code))
             THEN Ok(unlabeled_question(question_code, value))
        ELSE
        LET tmp_qn == d.node.questions[question_code]
            result_qn == [sequence |-> tmp_qn.sequence, label |-> tmp_qn.label,
                          answer_code |-> value]
        IN  IF ~Has(tmp_qn, "label") THEN Ok(unlabeled_question(question_code, value))
            ELSE IF tmp_qn.type = "select_one"
                 THEN Ok(Put(result_qn, "answer_label", select_one_label(tmp_qn, value, chl)))
            ELSE IF tmp_qn.type = "select_multiple"
                 THEN IF ~Has(tmp_qn, "list_name") THEN Raise("KeyError")
                      ELSE LET a == select_multiple_label(tmp_qn.list_name, value, chl)
                               c == unpack_choices(tmp_qn, tmp_qn.list_name, value, chl)
                           IN  IF a.exc # "" THEN a
                               ELSE IF ~unpack THEN Ok(Put(result_qn, "answer_label", a.val))
                               ELSE IF c.exc # "" THEN c
                               ELSE Ok(Put(Put(result_qn, "answer_label", a.val), "choices", c.val))
            ELSE Ok(Put(result_qn, "answer_label", value))

RECURSIVE remove_all(_, _)
\* for outer_group_code in outer_group_codes: inner_group_codes.remove(outer_group_code)
remove_all(inner_group_codes, outer_group_codes) ==
    IF outer_group_codes = << >> THEN [exc |-> "", list |-> inner_group_codes]
    ELSE LET r == list_remove(inner_group_codes, Head(outer_group_codes))
         IN  IF r.exc # "" THEN r ELSE remove_all(r.list, Tail(outer_group_codes))

RECURSIVE label_repeat_loop(_, _, _, _, _, _, _, _, _)
\* the two loops of label_repeat_group: `items` are the items of instance i
\* (repeat_set) still to read and repeat_group_i is repeat_group[i] so far;
\* repeat_list holds the instances after instance i
label_repeat_loop(outer_group_codes, repeat_list, i, repeat_group, items, repeat_group_i, qns, chl, unpack) ==
    IF items = << >>
    THEN LET done == Put(repeat_group, i, repeat_group_i)
         IN  IF repeat_list = << >> THEN Ok(done)
             ELSE label_repeat_loop(outer_group_codes, Tail(repeat_list), i + 1, done,
                                    Head(repeat_list), EmptyDict, qns, chl, unpack)
    ELSE
    LET key   == Head(items).key
        value == Head(items).value
        r     == remove_all(split(key, "/"), outer_group_codes)
        inner_group_codes == r.list
        labeled ==
            IF isinstance_list(value)
            THEN [key |-> join("/", inner_group_codes),
                  res |-> IF value.v = << >> THEN Ok(EmptyDict)
                          ELSE label_repeat_loop(outer_group_codes \o inner_group_codes,
                                                 Tail(value.v), 0, EmptyDict, Head(value.v),
                                                 EmptyDict, qns, chl, unpack)]
            ELSE IF inner_group_codes = << >>
            THEN [key |-> << >>, res |-> Raise("IndexError")]
            ELSE
            LET question_code == inner_group_codes[Len(inner_group_codes)]
                popped == SubSeq(inner_group_codes, 1, Len(inner_group_codes) - 1)
            IN  [key |-> join("/", popped \o <<question_code>>),
                 res |-> label_question(outer_group_codes \o popped, question_code,
                                        value.v, qns, chl, unpack)]
    IN  IF r.exc # "" THEN Raise(r.exc)
        ELSE IF labeled.res.exc # "" THEN Raise(labeled.res.exc)
        ELSE label_repeat_loop(outer_group_codes, repeat_list, i, repeat_group, Tail(items),
                               Put(repeat_group_i, labeled.key, labeled.res.val),
                               qns, chl, unpack)

label_repeat_group(outer_group_codes, repeat_list, qns, chl, unpack) ==
    IF repeat_list = << >> THEN Ok(EmptyDict)
    ELSE label_repeat_loop(outer_group_codes, Tail(repeat_list), 0, EmptyDict,
                           Head(repeat_list), EmptyDict, qns, chl, unpack)

meta_keys_start ==
    { <<"_">>,
      <<"m","e","t","a","/">>,
      <<"f","o","r","m","h","u","b","/">>,
      <<"s","i","m","s","e","r","i","a","l">>,
      <<"p","h","o","n","e","n","u","m","b","e","r">>,
      <<"s","t","a","r","t">>,
      <<"e","n","d">>,
      <<"t","o","d","a","y">>,
      <<"u","s","e","r","n","a","m","e">>,
      <<"d","e","v","i","c","e","i","d">>,
      <<"s","u","b","s","c","r","i","b","e","r","i","d">> }

\* key.startswith(meta_keys_start)
is_meta_key(key) == \E p \in meta_keys_start : startswith(key, p)

\* one pass of the loop of label_result over the item (key, value)
label_result_step(st, key, value, qns, chl, unpack) ==
    IF is_meta_key(key) THEN [st EXCEPT !.meta = Put(st.meta, key, value)]
    ELSE IF isinstance_list(value)
    THEN LET group_codes == split(key, "/")
             r == label_repeat_group(group_codes, value.v, qns, chl, unpack)
         IN  IF r.exc # "" THEN [st EXCEPT !.exc = r.exc]
             ELSE [st EXCEPT !.results = Put(st.results, join("/", group_codes), r.val)]
    ELSE LET codes == split(key, "/")
             question_code == codes[Len(codes)]
             group_codes == SubSeq(codes, 1, Len(codes) - 1)
             r == label_question(group_codes, question_code, value.v, qns, chl, unpack)
         IN  IF r.exc # "" THEN [st EXCEPT !.exc = r.exc]
             ELSE [st EXCEPT !.results = Put(st.results, key, r.val)]

\* a variant in which meta and results outlive the call
label_result_init_kept == [meta |-> meta, results |-> results, exc |-> ""]

\* meta = {}; results = {}
label_result_init == [meta |-> EmptyDict, results |-> EmptyDict, exc |-> ""]

\* the loop of label_result over the items of the raw response, left by an exception
RECURSIVE label_result_from(_, _, _, _, _)
label_result_from(st, items, qns, chl, unpack) ==
    IF items = << >> \/ st.exc # "" THEN st
    ELSE label_result_from(label_result_step(st, Head(items).key, Head(items).value, qns, chl, unpack), Tail(items), qns, chl, unpack)

\* label_result(unlabeled_result, choice_lists, questions, unpack_multiples)
label_result(items, chl, qns, unpack) ==
    LET st == label_result_from(label_result_init, items, qns, chl, unpack)
    IN  IF st.exc # "" THEN Raise(st.exc)
        ELSE Ok([meta |-> st.meta, results |-> st.results])

----------------------------------------------------------------------------
(* Inputs: survey elements, choice definitions, assets, raw responses *)

MaxElems == 4     \* elements of asset['content']['survey'] read by get_questions
MaxItems == 2     \* items of the raw response read by label_result
MaxChoices == 3   \* entries of asset['content']['choices'] read by get_choices
MaxResults == 3   \* responses in the list passed to sort_results_by_time
MaxCalls == 3     \* calls of label_result with one schema and one ChoiceIndex

\* asset['content']['choices']: list L with code a defined twice, list N with
\* a choice that has no label
ChoiceDefs ==
    << [list_name |-> <<"L">>, name |-> <<"a">>, label |-> << <<"A","0">> >>],
       [list_name |-> <<"L">>, name |-> <<"b">>, label |-> << <<"B">> >>],
       [list_name |-> <<"N">>, name |-> <<"a">>],
       [list_name |-> <<"L">>, name |-> <<"c">>, label |-> << <<"C">> >>],
       [list_name |-> <<"L">>, name |-> <<"a">>, label |-> << <<"A">> >>],
       [list_name |-> <<"N">>, name |-> <<"d">>, label |-> << <<"D">> >>] >>

BeginG   == [type |-> "begin_group",  name |-> <<"g">>, label |-> << <<"G">> >>]
BeginH   == [type |-> "begin_group",  name |-> <<"h">>]
BeginR   == [type |-> "begin_repeat", name |-> <<"r">>, label |-> << <<"R">> >>]
BeginS   == [type |-> "begin_repeat", name |-> <<"s">>]
BeginAnon == [type |-> "begin_group", label |-> << <<"G">> >>]
EndG     == [type |-> "end_group"]
EndR     == [type |-> "end_repeat", name |-> <<"r">>]
TextT    == [type |-> "text", name |-> <<"t">>, label |-> << <<"T">> >>, or_other |-> FALSE]
TextU    == [type |-> "text", autoname |-> <<"u">>]
TextAnon == [type |-> "text", label |-> << <<"T">> >>]
TextDate == [type |-> "text", name |-> <<"s","t","a","r","t","_","d","a","t","e">>,
             label |-> << <<"S">> >>]
OneO     == [type |-> "select_one", name |-> <<"o">>, autoname |-> <<"o","1">>,
             label |-> << <<"O">> >>, select_from_list_name |-> <<"L">>]
ManyM    == [type |-> "select_multiple", name |-> <<"m">>, label |-> << <<"M">> >>,
             select_from_list_name |-> <<"L">>, or_other |-> TRUE]
ManyN    == [type |-> "select_multiple", name |-> <<"n">>, label |-> << <<"N">> >>,
             select_from_list_name |-> <<"N">>]
\* elements that refer to no list, or to a list without choices
ManyX    == [type |-> "select_multiple", name |-> <<"x">>, label |-> << <<"X">> >>,
             select_from_list_name |-> <<"M">>]
ManyY    == [type |-> "select_multiple", name |-> <<"y">>, label |-> << <<"Y">> >>]
OneZ     == [type |-> "select_one", name |-> <<"z">>, label |-> << <<"Z">> >>]
OneW     == [type |-> "select_one", name |-> <<"w">>, label |-> << <<"W">> >>,
             select_from_list_name |-> <<"M">>]

\* the elements get_questions reads, one at a time
Elements ==
    {BeginG, BeginR, BeginAnon, EndG, EndR, TextT, TextU, TextAnon, OneO, ManyM, ManyN, ManyX}

FlatSurvey == <<TextT, TextDate, TextU>>
RichSurvey == <<BeginG, OneO, ManyM, TextU, BeginH, TextT, EndG, EndG,
                BeginR, TextT, BeginS, OneO, EndR, EndR,
                ManyN, TextDate>>
LooseSurvey == RichSurvey \o <<ManyX, ManyY, OneZ, OneW>>

Assets == { [survey |-> FlatSurvey,  choices |-> << >>],
            [survey |-> RichSurvey,  choices |-> ChoiceDefs],
            [survey |-> LooseSurvey, choices |-> ChoiceDefs] }

Item(k, v) == [key |-> k, value |-> v]

\* instances of the repeat group r, with the nested repeat group s
RepeatR ==
    << << Item(<<"r","/","t">>, Str(<<"v">>)) >>,
       << Item(<<"r","/","t">>, Str(<<"w">>)),
          Item(<<"r","/","s">>,
               List(<< << Item(<<"r","/","s","/","o">>, Str(<<"a">>)) >>,
                       << Item(<<"r","/","s","/","o">>, Str(<<"z">>)),
                          Item(<<"r","/","s","/","x">>, Str(<<"v">>)) >> >>)),
          Item(<<"r","/","x","/","t">>, Str(<<"v">>)) >> >>

\* the items a raw response is made of
Items ==
    << Item(<<"g","/","o">>, Str(<<"a">>)),
      Item(<<"g","/","o">>, Str(<<"z">>)),
      Item(<<"g","/","m">>, Str(<<"a"," ","c">>)),
      Item(<<"g","/","m">>, Str(<<"c"," "," ","a">>)),
      Item(<<"g","/","m">>, Str(<<"a"," ","z">>)),
      Item(<<"g","/","m">>, Str(<< >>)),
      Item(<<"g","/","u">>, Str(<<"v">>)),
      Item(<<"g","/","h","/","t">>, Str(<<"v">>)),
      Item(<<"g","/","x","/","t">>, Str(<<"v">>)),
      Item(<<"x","/","t">>, Str(<<"v">>)),
      Item(<<"g","/","h","/","x","/","t">>, Str(<<"v">>)),
      Item(<<"t">>, Str(<<"v">>)),
      Item(<<"n">>, Str(<<"d">>)),
      Item(<<"n">>, Str(<<"d"," ","a">>)),
      Item(<<"n">>, Str(<<"d"," ","z">>)),
      Item(<<"x">>, Str(<<"a">>)),
      Item(<<"y">>, Str(<<"a">>)),
      Item(<<"z">>, Str(<<"a">>)),
      Item(<<"w">>, Str(<<"a">>)),
      Item(<<"s","t","a","r","t","_","d","a","t","e">>, Str(<<"v">>)),
      Item(<<"e","n","d">>, Str(<<"v">>)),
      Item(<<"_","i","d">>, Str(<<"7">>)),
      Item(<<"_","a">>, List(<< >>)),
      Item(<<"m","e","t","a","/","i">>, Str(<<"v">>)),
      Item(<<"r">>, List(RepeatR)),
      Item(<<"r">>, List(<< >>)),
      Item(<<"r">>, List(<< << Item(<<"t">>, Str(<<"v">>)) >> >>)),
      Item(<<"g","/","r">>, List(<< << Item(<<"g","/","r","/","t">>, Str(<<"v">>)),
                                       Item(<<"g","/","r","/","g","/","o">>, Str(<<"a">>)) >> >>)) >>

----------------------------------------------------------------------------
(* get_questions, one element of the survey at a time *)

q_state == [sequence |-> sequence, root_group |-> root_group,
            group_levels |-> group_levels, tmp_group |-> tmp_group, exc |-> q_exc]

\* the variables of get_questions in the state st of its loop
q_set(st, srv, unpack, chs, pc) ==
    /\ survey = srv
    /\ unpack_multiples = unpack
    /\ choices = chs
    /\ sequence = st.sequence
    /\ root_group = st.root_group
    /\ group_levels = st.group_levels
    /\ tmp_group = st.tmp_group
    /\ q_exc = st.exc
    /\ q_pc = pc

c_idle ==
    /\ c_choices = << >>
    /\ c_choice_lists = EmptyDict
    /\ c_sequence = 0
    /\ c_pc = "idle"

s_idle ==
    /\ unsorted_results = << >>
    /\ reverse = FALSE
    /\ sorted_results = << >>
    /\ s_exc = ""
    /\ s_pc = "idle"

q_idle == q_set(get_questions_init, << >>, FALSE, EmptyDict, "idle")

x_idle == calls = << >> /\ c_idle /\ s_idle

l_idle ==
    /\ unlabeled_result = << >>
    /\ choice_lists = EmptyDict
    /\ questions = EmptyDict
    /\ l_unpack_multiples = FALSE
    /\ meta = EmptyDict
    /\ results = EmptyDict
    /\ l_pc = "idle"
    /\ l_exc = ""
    /\ output = EmptyDict

InitQ ==
    /\ \E unpack \in BOOLEAN :
          q_set(get_questions_init, << >>, unpack,
                IF unpack THEN get_choices(ChoiceDefs) ELSE EmptyDict, "loop")
    /\ l_idle
    /\ x_idle

QStep(qn) ==
    /\ q_pc = "loop"
    /\ Len(survey) < MaxElems
    /\ LET st == get_questions_step(q_state, qn, unpack_multiples, choices)
       IN  /\ survey' = Append(survey, qn)
           /\ sequence' = st.sequence
           /\ root_group' = st.root_group
           /\ group_levels' = st.group_levels
           /\ tmp_group' = st.tmp_group
           /\ q_exc' = st.exc
           /\ q_pc' = IF st.exc = "" THEN "loop" ELSE "raised"
    /\ UNCHANGED <<unpack_multiples, choices, l_vars, x_vars>>

BeginElement == \E qn \in Elements : is_begin(qn) /\ QStep(qn)

EndElement == \E qn \in Elements : is_end(qn) /\ QStep(qn)

QuestionElement == \E qn \in Elements : ~is_begin(qn) /\ ~is_end(qn) /\ QStep(qn)

\* return root_group
ReturnQ ==
    /\ q_pc = "loop"
    /\ q_pc' = "returned"
    /\ UNCHANGED <<survey, unpack_multiples, choices, sequence, root_group, group_levels,
                   tmp_group, q_exc, l_vars, x_vars>>

NextQ == BeginElement \/ EndElement \/ QuestionElement \/ ReturnQ

SpecQ == InitQ /\ [][NextQ]_vars

----------------------------------------------------------------------------
(* label_result, one item of the raw response at a time *)

l_state == [meta |-> meta, results |-> results, exc |-> l_exc]

InitL ==
    \E asset \in Assets, unpack \in BOOLEAN, l_unpack \in BOOLEAN :
        LET st == get_questions(asset, unpack)
        IN  /\ st.exc = ""
            /\ q_set(st, asset.survey, unpack,
                     IF unpack THEN get_choices(asset.choices) ELSE EmptyDict, "returned")
            /\ unlabeled_result = << >>
            /\ choice_lists = get_choices(asset.choices)
            /\ questions = st.root_group
            /\ l_unpack_multiples = l_unpack
            /\ meta = EmptyDict
            /\ results = EmptyDict
            /\ l_pc = "loop"
            /\ l_exc = ""
            /\ output = EmptyDict
            /\ x_idle

LStep(item) ==
    /\ l_pc = "loop"
    /\ Len(unlabeled_result) < MaxItems
    /\ \A i \in DOMAIN unlabeled_result : unlabeled_result[i].key # item.key
    /\ LET st == label_result_step(l_state, item.key, item.value, questions, choice_lists,
                                   l_unpack_multiples)
       IN  /\ unlabeled_result' = Append(unlabeled_result, item)
           /\ meta' = st.meta
           /\ results' = st.results
           /\ l_exc' = st.exc
           /\ l_pc' = IF st.exc = "" THEN "loop" ELSE "raised"
    /\ UNCHANGED <<q_vars, choice_lists, questions, l_unpack_multiples, output, x_vars>>

MetaItem == \E i \in DOMAIN Items : LET item == Items[i] IN is_meta_key(item.key) /\ LStep(item)

RepeatItem ==
    \E i \in DOMAIN Items : LET item == Items[i] IN ~is_meta_key(item.key) /\ isinstance_list(item.value) /\ LStep(item)

QuestionItem ==
    \E i \in DOMAIN Items : LET item == Items[i] IN ~is_meta_key(item.key) /\ ~isinstance_list(item.value) /\ LStep(item)

\* return {'meta': meta, 'results': results}
ReturnL ==
    /\ l_pc = "loop"
    /\ l_pc' = "returned"
    /\ output' = [meta |-> meta, results |-> results]
    /\ UNCHANGED <<q_vars, unlabeled_result, choice_lists, questions, l_unpack_multiples,
                   meta, results, l_exc, x_vars>>

NextL == MetaItem \/ RepeatItem \/ QuestionItem \/ ReturnL

SpecL == InitL /\ [][NextL]_vars

----------------------------------------------------------------------------
(* Properties of label_result, checked under SpecL *)

ItemKey(i)   == unlabeled_result[i].key
ItemValue(i) == unlabeled_result[i].value

\* item i was read and its pass of the loop ended without an exception
Labeled(i) == i \in DOMAIN unlabeled_result /\ (l_exc = "" \/ i < Len(unlabeled_result))

\* item i is handed to label_question: no metadata, no list
QuestionItemAt(i) == ~is_meta_key(ItemKey(i)) /\ ~isinstance_list(ItemValue(i))

\* item i is handed to label_repeat_group
RepeatItemAt(i) == ~is_meta_key(ItemKey(i)) /\ isinstance_list(ItemValue(i))

KeyCodes(key)    == split(key, "/")
KeyGroups(key)   == SubSeq(KeyCodes(key), 1, Len(KeyCodes(key)) - 1)
KeyQuestion(key) == KeyCodes(key)[Len(KeyCodes(key))]

RECURSIVE HasGroupPath(_, _)
\* every group code of the path is a child group of the group before it
HasGroupPath(tree, group_codes) ==
    \/ group_codes = << >>
    \/ /\ Has(tree, "groups")
       /\ Has(tree.groups, Head(group_codes))
       /\ HasGroupPath(tree.groups[Head(group_codes)], Tail(group_codes))

\* the schema has the question at the path
HasQuestion(tree, group_codes, question_code) ==
    /\ HasGroupPath(tree, group_codes)
    /\ Has(get_node(tree, group_codes), "questions")
    /\ Has(get_node(tree, group_codes).questions, question_code)

QuestionAt(tree, group_codes, question_code) ==
    get_node(tree, group_codes).questions[question_code]

\* the schema resolves the path to a question with a label
Resolved(tree, group_codes, question_code) ==
    /\ HasQuestion(tree, group_codes, question_code)
    /\ Has(QuestionAt(tree, group_codes, question_code), "label")

ResolvedKey(key) == Resolved(questions, KeyGroups(key), KeyQuestion(key))
QuestionOfKey(key) == QuestionAt(questions, KeyGroups(key), KeyQuestion(key))

Unlabeled(question_code, value) ==
    [label |-> question_code, answer_code |-> value, answer_label |-> value]

\* C1: label_question never raises on a resolution miss: whenever a group code
\* of the path is missing (the first or a deeper one, also when the group
\* reached has no child groups at all), the group has no such question, or the
\* question has no label, the result is {label: question_code, answer_code:
\* value, answer_label: value}.
C1_MissFallsBackUnlabeled ==
    \A i \in DOMAIN unlabeled_result :
        (QuestionItemAt(i) /\ ~ResolvedKey(ItemKey(i)))
        => /\ Labeled(i)
           /\ Has(results, ItemKey(i))
           /\ results[ItemKey(i)] = Unlabeled(KeyQuestion(ItemKey(i)), ItemValue(i).v)

Keys(items) == {items[i].key : i \in DOMAIN items}

\* C4: label_result partitions the keys of the raw response: every key is in
\* exactly one of 'meta' and 'results' under its unchanged key string (the
\* keys of repeat groups too), no other key is in either, and a metadata
\* value is copied verbatim.
C4_KeysPartitioned ==
    /\ l_exc = ""
       => /\ (DOMAIN meta) \cup (DOMAIN results) = Keys(unlabeled_result)
          /\ (DOMAIN meta) \cap (DOMAIN results) = {}
          /\ \A i \in DOMAIN unlabeled_result :
                Has(meta, ItemKey(i)) => meta[ItemKey(i)] = ItemValue(i)
    /\ l_pc = "returned"
       => /\ DOMAIN output = {"meta", "results"}
          /\ output.meta = meta
          /\ DOMAIN output.results = DOMAIN results

\* a response with a metadata key, a question key and the key of a repeat
\* group inside a group has been labeled and returned
C4_Witness ==
    /\ l_pc = "returned"
    /\ Len(unlabeled_result) >= 2
    /\ DOMAIN output.meta # {}
    /\ <<"g","/","r">> \in DOMAIN output.results

\* the label of code `value` in the bucket of the question's list, when the
\* lookup succeeds
ChoiceFound(q, value) ==
    /\ Has(q, "list_name")
    /\ Has(choice_lists, q.list_name)
    /\ Has(choice_lists[q.list_name].val, value)

\* C5: a resolved, labeled 'select_one' question yields {sequence, label,
\* answer_code: value, answer_label}, answer_label the label of the choice
\* `value` of the question's list, and the raw value on any lookup failure
\* (no list name, no such list, no such code); it never raises.  For a type
\* other than 'select_one' and 'select_multiple' answer_label is the raw value.
C5_SelectOneLabel ==
    \A i \in DOMAIN unlabeled_result :
        (QuestionItemAt(i) /\ ResolvedKey(ItemKey(i))
            /\ QuestionOfKey(ItemKey(i)).type # "select_multiple")
        => LET q     == QuestionOfKey(ItemKey(i))
               value == ItemValue(i).v
           IN  /\ Labeled(i)
               /\ Has(results, ItemKey(i))
               /\ results[ItemKey(i)] =
                     [sequence     |-> q.sequence,
                      label        |-> q.label,
                      answer_code  |-> value,
                      answer_label |-> IF q.type = "select_one" /\ ChoiceFound(q, value)
                                       THEN choice_lists[q.list_name].val[value].label
                                       ELSE value]

\* 'select_one' answers with a successful lookup and with each kind of lookup
\* failure, and an answer of a plain type
C5_Witness ==
    /\ l_exc = ""
    /\ \E i \in DOMAIN unlabeled_result :
          /\ ItemKey(i) = <<"g","/","o">>
          /\ results[ItemKey(i)].answer_label \in {<<"A">>, <<"z">>}
    /\ \E i \in DOMAIN unlabeled_result :
          /\ ItemKey(i) \in {<<"z">>, <<"w">>, <<"g","/","h","/","t">>}
          /\ ResolvedKey(ItemKey(i))

\* the str of the labels of `codes`, each followed by ';'
RECURSIVE LabelsOf(_, _)
LabelsOf(val, codes) ==
    IF codes = << >> THEN << >>
    ELSE val[codes[1]].label \o <<";">> \o LabelsOf(val, Tail(codes))

\* item i is the answer to a resolved, labeled 'select_multiple' question
SelectMultipleAt(i) ==
    /\ QuestionItemAt(i)
    /\ ResolvedKey(ItemKey(i))
    /\ QuestionOfKey(ItemKey(i)).type = "select_multiple"

\* every code of the raw value is a choice of the question's list
AllCodesFound(q, value) ==
    \A j \in DOMAIN split_ws(value) : ChoiceFound(q, split_ws(value)[j])

\* C6: for a resolved, labeled 'select_multiple' question the raw value is a
\* space-delimited sequence of choice codes and answer_label is the
\* concatenation, in the order of the codes in the raw value, of each code's
\* choice label followed by ';'; if one of the codes cannot be looked up,
\* answer_label is the whole raw value (never a partial concatenation).
C6_SelectMultipleLabel ==
    \A i \in DOMAIN unlabeled_result :
        (SelectMultipleAt(i) /\ Labeled(i))
        => LET q     == QuestionOfKey(ItemKey(i))
               value == ItemValue(i).v
               r     == results[ItemKey(i)]
           IN  /\ r.sequence = q.sequence
               /\ r.label = q.label
               /\ r.answer_code = value
               /\ r.answer_label =
                     IF AllCodesFound(q, value)
                     THEN LabelsOf(choice_lists[q.list_name].val, split_ws(value))
                     ELSE value

\* 'c  a' is labeled 'C;A;' and 'd z', with the unknown code z, is left as it is
C6_Witness ==
    /\ \E i \in DOMAIN unlabeled_result :
          /\ SelectMultipleAt(i) /\ Labeled(i)
          /\ ItemValue(i).v = <<"c"," "," ","a">>
          /\ results[ItemKey(i)].answer_label = <<"C",";","A",";">>
    /\ \E i \in DOMAIN unlabeled_result :
          /\ SelectMultipleAt(i) /\ Labeled(i)
          /\ ItemValue(i).v = <<"d"," ","z">>
          /\ results[ItemKey(i)].answer_label = <<"d"," ","z">>

\* C7: with unpack_multiples, a resolved 'select_multiple' question gets under
\* 'choices' one entry per choice of its list, keyed by choice code, in the
\* insertion order of the choice index; each has the sequence of the choice's
\* sub-entry in the schema and the choice's label, and answer_code 1 and
\* answer_label 'Yes' exactly when the code is one of the space-delimited codes
\* of the raw value, else 0 and 'No'.
C7_UnpackedChoices ==
    \A i \in DOMAIN unlabeled_result :
        (SelectMultipleAt(i) /\ Labeled(i) /\ l_unpack_multiples)
        => LET q      == QuestionOfKey(ItemKey(i))
               value  == ItemValue(i).v
               bucket == choice_lists[q.list_name]
               r      == results[ItemKey(i)]
           IN  /\ Has(r, "choices")
               /\ r.choices.keys = bucket.keys
               /\ DOMAIN r.choices.val = DOMAIN bucket.val
               /\ \A c \in DOMAIN bucket.val :
                     LET chosen == \E j \in DOMAIN split_ws(value) : split_ws(value)[j] = c
                     IN  r.choices.val[c] =
                            [sequence     |-> q.choices[c].sequence,
                             label        |-> bucket.val[c].label,
                             answer_code  |-> IF chosen THEN 1 ELSE 0,
                             answer_label |-> IF chosen THEN <<"Y","e","s">> ELSE <<"N","o">>]

\* value 'a c' over the list {a, b, c}: a and c are 'Yes', b is 'No', the
\* answer label is 'A;C;'
C7_Witness ==
    \E i \in DOMAIN unlabeled_result :
        /\ SelectMultipleAt(i) /\ Labeled(i) /\ l_unpack_multiples
        /\ ItemValue(i).v = <<"a"," ","c">>
        /\ LET r == results[ItemKey(i)]
           IN  /\ r.answer_label = <<"A",";","C",";">>
               /\ r.choices.keys = << <<"a">>, <<"b">>, <<"c">> >>
               /\ r.choices.val[<<"a">>].answer_code = 1
               /\ r.choices.val[<<"b">>].answer_label = <<"N","o">>
               /\ r.choices.val[<<"c">>].answer_label = <<"Y","e","s">>

\* the choice index does not cover the raw value: the list has no bucket, a
\* code is no choice of it, or the choice has no label
IncompleteChoices(q, value) ==
    \/ ~Has(choice_lists, q.list_name)
    \/ \E j \in DOMAIN split_ws(value) :
          \/ ~Has(choice_lists[q.list_name].val, split_ws(value)[j])
          \/ choice_lists[q.list_name].val[split_ws(value)[j]].label = None

\* C8: labeling never fails because of incomplete choice coverage: for a
\* resolved 'select_multiple' question an unknown choice code, a list name
\* without a bucket, or a choice without a label each give the raw value as
\* answer_label, with unpack_multiples false or true, and label_result
\* returns its result.
C8_IncompleteChoicesFallBack ==
    \A i \in DOMAIN unlabeled_result :
        (SelectMultipleAt(i) /\ Has(QuestionOfKey(ItemKey(i)), "list_name")
            /\ IncompleteChoices(QuestionOfKey(ItemKey(i)), ItemValue(i).v))
        => /\ Labeled(i)
           /\ results[ItemKey(i)].answer_label = ItemValue(i).v

\* the metadata keys of the claim: the three prefixes and the exact names
StandardMetaNames ==
    { <<"s","i","m","s","e","r","i","a","l">>,
      <<"p","h","o","n","e","n","u","m","b","e","r">>,
      <<"s","t","a","r","t">>,
      <<"e","n","d">>,
      <<"t","o","d","a","y">>,
      <<"u","s","e","r","n","a","m","e">>,
      <<"d","e","v","i","c","e","i","d">>,
      <<"s","u","b","s","c","r","i","b","e","r","i","d">> }

IsMetadataKey(key) ==
    \/ startswith(key, <<"_">>)
    \/ startswith(key, <<"m","e","t","a","/">>)
    \/ startswith(key, <<"f","o","r","m","h","u","b","/">>)
    \/ key \in StandardMetaNames

\* C9: a top-level key is metadata exactly when it is underscore-prefixed,
\* starts with 'meta/' or 'formhub/', or is one of the standard metadata field
\* names; every other key, also one that only begins with such a name
\* ('start_date'), is labeled into 'results'.
C9_MetadataKeysExact ==
    \A i \in DOMAIN unlabeled_result :
        Labeled(i) => /\ Has(meta, ItemKey(i)) <=> IsMetadataKey(ItemKey(i))
                      /\ Has(results, ItemKey(i)) <=> ~IsMetadataKey(ItemKey(i))

HasPrefix(codes, outer) == Len(codes) >= Len(outer) /\ SubSeq(codes, 1, Len(outer)) = outer

\* the path relative to the repeat group at `outer`
Relative(codes, outer) == SubSeq(codes, Len(outer) + 1, Len(codes))

RECURSIVE RepeatKeysPrefixed(_, _)
\* every key of every instance is the path of its repeat group followed by a
\* relative path, in nested repeat groups too
RepeatKeysPrefixed(outer, repeat_list) ==
    \A n \in DOMAIN repeat_list : \A j \in DOMAIN repeat_list[n] :
        LET codes == split(repeat_list[n][j].key, "/")
            value == repeat_list[n][j].value
        IN  /\ HasPrefix(codes, outer)
            /\ Len(codes) > Len(outer)
            /\ isinstance_list(value) => RepeatKeysPrefixed(codes, value.v)

RECURSIVE RepeatLabeledAs(_, _, _)
\* repeat_group is the labeled form of the instances of the repeat group at `outer`
RepeatLabeledAs(repeat_group, outer, repeat_list) ==
    /\ DOMAIN repeat_group = 0 .. (Len(repeat_list) - 1)
    /\ \A n \in DOMAIN repeat_list :
          LET instance == repeat_list[n]
              rel(j)   == join("/", Relative(split(instance[j].key, "/"), outer))
          IN  /\ DOMAIN repeat_group[n - 1] = {rel(j) : j \in DOMAIN instance}
              /\ \A j \in DOMAIN instance :
                    LET codes == split(instance[j].key, "/")
                        value == instance[j].value
                        entry == repeat_group[n - 1][rel(j)]
                    IN  IF isinstance_list(value)
                        THEN RepeatLabeledAs(entry, codes, value.v)
                        ELSE entry = label_question(SubSeq(codes, 1, Len(codes) - 1),
                                                    codes[Len(codes)], value.v, questions,
                                                    choice_lists, l_unpack_multiples).val

\* C3: label_repeat_group maps n instances to the integer keys 0..n-1 in
\* instance order; in each instance a key is stored with the outer group-code
\* prefix stripped; a list-valued entry is labeled as a nested repeat group
\* with the outer path extended by the intermediate segments, a scalar entry
\* gets the record of single-question labeling for the full group-code path
\* and the trailing question code; at any nesting depth.
C3_RepeatGroupLabeled ==
    \A i \in DOMAIN unlabeled_result :
        (RepeatItemAt(i) /\ Labeled(i)
            /\ RepeatKeysPrefixed(KeyCodes(ItemKey(i)), ItemValue(i).v))
        => /\ Has(results, ItemKey(i))
           /\ RepeatLabeledAs(results[ItemKey(i)], KeyCodes(ItemKey(i)), ItemValue(i).v)

\* the repeat group r with the repeat group s nested in its second instance,
\* and a repeat group inside the group g
C3_Witness ==
    /\ l_exc = ""
    /\ Has(results, <<"r">>)
    /\ DOMAIN results[<<"r">>] = {0, 1}
    /\ DOMAIN results[<<"r">>][1][<<"s">>] = {0, 1}
    /\ results[<<"r">>][1][<<"s">>][0][<<"o">>].answer_label = <<"A">>
    /\ Has(results[<<"r">>][1], <<"x","/","t">>)
    /\ Has(results, <<"g","/","r">>)
    /\ Has(results[<<"g","/","r">>][0], <<"g","/","o">>)

----------------------------------------------------------------------------
(* Properties of get_questions, checked under SpecQ *)

Front(s) == SubSeq(s, 1, Len(s) - 1)
Last(s)  == s[Len(s)]

IsQuestionElement(qn) == ~is_begin(qn) /\ ~is_end(qn)
HasCode(qn) == Has(qn, "name") \/ Has(qn, "autoname")

\* the code of an element: its 'name', else its '$autoname'
CodeOf(qn) ==
    IF Has(qn, "name") THEN qn.name ELSE IF Has(qn, "autoname") THEN qn.autoname ELSE None

\* the choices of a bucket in ascending order of their stored sequence
ChoiceOrder(bucket) ==
    CHOOSE s \in [1 .. Cardinality(DOMAIN bucket.val) -> DOMAIN bucket.val] :
        \A a, b \in DOMAIN s : a < b => bucket.val[s[a]].sequence < bucket.val[s[b]].sequence

Event(kind, path, code) == [kind |-> kind, path |-> path, code |-> code]

\* what the element qn, read in the group at `cur`, is to number, in order
ElementEvents(qn, cur) ==
    IF is_begin(qn) THEN << Event("group", Append(cur, CodeOf(qn)), << >>) >>
    ELSE IF is_end(qn) THEN << >>
    ELSE LET path  == Append(cur, CodeOf(qn))
             order == IF unpack_multiples /\ qn.type = "select_multiple"
                      THEN ChoiceOrder(choices[qn.select_from_list_name]) ELSE << >>
         IN  << Event("question", path, << >>) >>
             \o [k \in 1 .. Len(order) |-> Event("choice", path, order[k])]
             \o (IF Has(qn, "or_other") /\ qn.or_other
                 THEN << Event("other", path, << >>) >> ELSE << >>)

RECURSIVE EventsFrom(_, _)
EventsFrom(qns, cur) ==
    IF qns = << >> THEN << >>
    ELSE LET qn == Head(qns)
         IN  ElementEvents(qn, cur)
             \o EventsFrom(Tail(qns),
                           IF is_begin(qn) THEN Append(cur, CodeOf(qn))
                           ELSE IF is_end(qn) /\ cur # << >> THEN Front(cur)
                           ELSE cur)

\* the groups, questions, choice sub-entries and 'other' sub-entries of the
\* definition list, in its order
Events == EventsFrom(survey, << >>)

\* no two groups and no two questions of one group have the same code
Unique(events) == \A a, b \in DOMAIN events : a < b => events[a] # events[b]
UniqueCodes == Unique(Events)

EventInTree(e) ==
    IF e.kind = "group" THEN HasGroupPath(root_group, e.path)
    ELSE /\ HasQuestion(root_group, Front(e.path), Last(e.path))
         /\ LET q == QuestionAt(root_group, Front(e.path), Last(e.path))
            IN  /\ e.kind = "choice" => Has(q, "choices") /\ Has(q.choices, e.code)
                /\ e.kind = "other" => Has(q, "other")

EventSequence(e) ==
    IF e.kind = "group" THEN get_node(root_group, e.path).sequence
    ELSE LET q == QuestionAt(root_group, Front(e.path), Last(e.path))
         IN  IF e.kind = "choice" THEN q.choices[e.code].sequence
             ELSE IF e.kind = "other" THEN q.other.sequence
             ELSE q.sequence

GroupKeys(node)    == IF Has(node, "groups") THEN DOMAIN node.groups ELSE {}
QuestionKeys(node) == IF Has(node, "questions") THEN DOMAIN node.questions ELSE {}

RECURSIVE TreeSize(_, _, _)
\* the number of entries with a sequence under `node`, of its child groups gs
\* and its questions qs
TreeSize(node, gs, qs) ==
    IF qs # {}
    THEN LET k == CHOOSE k \in qs : TRUE
             q == node.questions[k]
         IN  1 + (IF Has(q, "choices") THEN Cardinality(DOMAIN q.choices) ELSE 0)
               + (IF Has(q, "other") THEN 1 ELSE 0)
               + TreeSize(node, gs, qs \ {k})
    ELSE IF gs # {}
    THEN LET k == CHOOSE k \in gs : TRUE
             g == node.groups[k]
         IN  1 + TreeSize(g, GroupKeys(g), QuestionKeys(g)) + TreeSize(node, gs \ {k}, {})
    ELSE 0

\* C2: one counter from 0 numbers every group-open element, question, choice
\* sub-entry and 'other' sub-entry, in the order of the input elements: with
\* unique codes per group the sequence values of the tree are distinct, are
\* the range 0..N-1, and their order is the order of the definition list.
C2_SequenceNumbering ==
    q_exc = "" =>
        LET events == Events
        IN  Unique(events)
            => /\ sequence = Len(events)
               /\ TreeSize(root_group, GroupKeys(root_group), QuestionKeys(root_group))
                     = Len(events)
               /\ \A k \in DOMAIN events :
                     EventInTree(events[k]) /\ EventSequence(events[k]) = k - 1

\* a group, in it a 'select_multiple' question with three choice sub-entries
\* and an 'other' sub-entry, and a question after the group: 0..6
C2_Witness ==
    /\ q_pc = "returned"
    /\ unpack_multiples
    /\ survey = <<BeginG, ManyM, EndG, TextT>>
    /\ UniqueCodes
    /\ sequence = 7
    /\ root_group.questions[<<"t">>].sequence = 6

----------------------------------------------------------------------------
(* get_choices, one choice definition at a time *)

\* the choice definitions get_choices reads: two lists, two codes, with and without label
Choices ==
    { [list_name |-> l, name |-> n, label |-> << lb >>] :
          l \in {<<"L">>, <<"N">>}, n \in {<<"a">>, <<"b">>}, lb \in {<<"A">>, <<"B">>} }
    \cup { [list_name |-> l, name |-> n] : l \in {<<"L">>, <<"N">>}, n \in {<<"a">>, <<"b">>} }

c_state == [choice_lists |-> c_choice_lists, sequence |-> c_sequence]

InitC ==
    /\ c_choices = << >>
    /\ c_choice_lists = EmptyDict
    /\ c_sequence = 0
    /\ c_pc = "loop"
    /\ q_idle
    /\ l_idle
    /\ calls = << >>
    /\ s_idle

CStep(choice) ==
    /\ c_pc = "loop"
    /\ Len(c_choices) < MaxChoices
    /\ LET st == get_choices_step(c_state, choice)
       IN  /\ c_choices' = Append(c_choices, choice)
           /\ c_choice_lists' = st.choice_lists
           /\ c_sequence' = st.sequence
    /\ UNCHANGED <<c_pc, q_vars, l_vars, calls, s_vars>>

\* a choice of a list name seen for the first time: its bucket is created
NewListChoice == \E choice \in Choices : ~Has(c_choice_lists, choice.list_name) /\ CStep(choice)

KnownListChoice == \E choice \in Choices : Has(c_choice_lists, choice.list_name) /\ CStep(choice)

\* return choice_lists
ReturnC ==
    /\ c_pc = "loop"
    /\ c_pc' = "returned"
    /\ UNCHANGED <<c_choices, c_choice_lists, c_sequence, q_vars, l_vars, calls, s_vars>>

NextC == NewListChoice \/ KnownListChoice \/ ReturnC

SpecC == InitC /\ [][NextC]_vars

----------------------------------------------------------------------------
(* Properties of get_choices, checked under SpecC *)

\* the places in the input of the definitions of code `name` of list `list_name`
DefinedAt(list_name, name) ==
    {i \in DOMAIN c_choices : c_choices[i].list_name = list_name /\ c_choices[i].name = name}

Max(S) == CHOOSE m \in S : \A n \in S : n <= m

\* the pairs of list name and code the input defines
DefinedPairs == {<<c_choices[i].list_name, c_choices[i].name>> : i \in DOMAIN c_choices}

StoredPairs ==
    UNION {{<<l, n>> : n \in DOMAIN c_choice_lists[l].val} : l \in DOMAIN c_choice_lists}

StoredEntry(pair) == c_choice_lists[pair[1]].val[pair[2]]

\* C11: get_choices reads the choice definitions once in order and gives each entry
\* the next value of one counter that starts at 0: the stored entries are those of
\* the pairs of list name and code defined, each carries the place (from 0) and the
\* label (None when the definition has none) of the LAST definition of its pair, so
\* the stored sequence values are unique across all lists and increase with the
\* input order whatever the list names are.
C11_ChoiceSequence ==
    /\ c_sequence = Len(c_choices)
    /\ StoredPairs = DefinedPairs
    /\ \A l \in DOMAIN c_choice_lists :
           /\ Range(c_choice_lists[l].keys) = DOMAIN c_choice_lists[l].val
           /\ DOMAIN c_choice_lists[l].val # {}
    /\ \A pair \in StoredPairs :
           LET last == Max(DefinedAt(pair[1], pair[2]))
               def  == c_choices[last]
           IN  /\ StoredEntry(pair).sequence = last - 1
               /\ StoredEntry(pair).label =
                      IF "label" \in DOMAIN def THEN def.label[1] ELSE None
    /\ \A p1, p2 \in StoredPairs :
           /\ (p1 # p2 => StoredEntry(p1).sequence # StoredEntry(p2).sequence)
           /\ (Max(DefinedAt(p1[1], p1[2])) < Max(DefinedAt(p2[1], p2[2]))
                  => StoredEntry(p1).sequence < StoredEntry(p2).sequence)

\* get_choices returned after a pair was defined twice with different labels, with
\* another list in between, and a choice without label was stored
C11_Witness ==
    /\ c_pc = "returned"
    /\ \E i, j, k \in DOMAIN c_choices :
           /\ i < k /\ k < j
           /\ c_choices[i].list_name = c_choices[j].list_name
           /\ c_choices[i].name = c_choices[j].name
           /\ c_choices[k].list_name # c_choices[i].list_name
           /\ "label" \in DOMAIN c_choices[i]
           /\ "label" \in DOMAIN c_choices[j]
           /\ c_choices[i].label # c_choices[j].label
           /\ "label" \notin DOMAIN c_choices[k]
           /\ StoredEntry(<<c_choices[k].list_name, c_choices[k].name>>).label = None
           /\ StoredEntry(<<c_choices[j].list_name, c_choices[j].name>>).sequence = j - 1

----------------------------------------------------------------------------
(* sort_results_by_time *)

\* a response with its submission time and its _id
Result(time, id) == Put(Put(EmptyDict, "_submission_time", time), "_id", id)

\* "202" is a proper prefix of "2020", and "9" sorts behind "2021" as a str
SubmissionTimes == { <<"2","0","2","0">>, <<"2","0","2","1">>, <<"2","0","2">>, <<"9">> }

\* the responses of the list, one of them without '_submission_time'
Responses ==
    { Result(time, id) : time \in SubmissionTimes, id \in {<<"1">>, <<"2">>} }
    \cup { Put(EmptyDict, "_id", <<"3">>) }

InitS ==
    /\ unsorted_results \in UNION {[1..n -> Responses] : n \in 0..MaxResults}
    /\ reverse \in BOOLEAN
    /\ sorted_results = << >>
    /\ s_exc = ""
    /\ s_pc = "called"
    /\ q_idle
    /\ l_idle
    /\ calls = << >>
    /\ c_idle

\* sorted_results = sorted(unsorted_results, key=..., reverse=reverse); return sorted_results
SortResultsByTime ==
    /\ s_pc = "called"
    /\ LET r == sorted_by_key(unsorted_results, "_submission_time", reverse)
       IN  /\ sorted_results' = r.list
           /\ s_exc' = r.exc
           /\ s_pc' = IF r.exc = "" THEN "returned" ELSE "raised"
    /\ UNCHANGED <<unsorted_results, reverse, q_vars, l_vars, calls, c_vars>>

NextS == SortResultsByTime

SpecS == InitS /\ [][NextS]_vars

----------------------------------------------------------------------------
(* Properties of sort_results_by_time, checked under SpecS *)

TimeOf(result) == result["_submission_time"]

\* the str order of the submission times, written out
TimeRank(time) ==
    CASE time = <<"2","0","2">>     -> 1
      [] time = <<"2","0","2","0">> -> 2
      [] time = <<"2","0","2","1">> -> 3
      [] time = <<"9">>             -> 4

Rearrangements(n) == {p \in [1..n -> 1..n] : \A i, j \in 1..n : p[i] = p[j] => i = j}

\* out is the list `in` rearranged by p: in order of the times (descending when rev),
\* responses of equal time in their order of `in`
StablySortedBy(p, in, out, rev) ==
    /\ \A i \in DOMAIN out : out[i] = in[p[i]]
    /\ \A i, j \in DOMAIN out :
           i < j =>
               LET ri == TimeRank(TimeOf(out[i]))
                   rj == TimeRank(TimeOf(out[j]))
               IN  /\ (IF rev THEN ri >= rj ELSE ri <= rj)
                   /\ (ri = rj => p[i] < p[j])

SortedOnReturn ==
    s_pc = "returned" =>
        /\ Len(sorted_results) = Len(unsorted_results)
        /\ \E p \in Rearrangements(Len(unsorted_results)) :
               StablySortedBy(p, unsorted_results, sorted_results, reverse)

\* C12: sort_results_by_time returns a permutation of the input in the str order of
\* '_submission_time', ascending, or descending when reverse is true; responses of
\* equal time keep their order of the input in both directions; and the call leaves
\* the input list as it was.
C12_StableSortByTime ==
    /\ []SortedOnReturn
    /\ [][unsorted_results' = unsorted_results /\ reverse' = reverse]_vars

\* a descending sort returned a list that differs from its input, with two responses
\* of equal time and a response of another time
C12_Witness ==
    /\ s_pc = "returned"
    /\ reverse
    /\ sorted_results # unsorted_results
    /\ \E i, j, k \in DOMAIN unsorted_results :
           /\ i < j
           /\ TimeOf(unsorted_results[i]) = TimeOf(unsorted_results[j])
           /\ unsorted_results[i] # unsorted_results[j]
           /\ TimeOf(unsorted_results[k]) # TimeOf(unsorted_results[i])

----------------------------------------------------------------------------
(* label_result called again and again with one schema and one ChoiceIndex *)

\* the raw responses passed to label_result: questions in groups, a repeat group
\* with a nested repeat group, keys that are not in the schema, metadata
RawResponses ==
    << << Item(<<"g","/","o">>, Str(<<"a">>)),
          Item(<<"g","/","m">>, Str(<<"a"," ","c">>)),
          Item(<<"_","i","d">>, Str(<<"7">>)) >>,
       << Item(<<"r">>, List(RepeatR)),
          Item(<<"t">>, Str(<<"v">>)) >>,
       << Item(<<"x","/","t">>, Str(<<"v">>)),
          Item(<<"_","a">>, List(<< >>)) >>,
       << Item(<<"g","/","o">>, Str(<<"z">>)),
          Item(<<"g","/","x","/","t">>, Str(<<"v">>)),
          Item(<<"g","/","m">>, Str(<<"a"," ","z">>)) >>,
       << Item(<<"t">>, Str(<<"w">>)),
          Item(<<"n">>, Str(<<"d"," ","a">>)) >> >>

InitP ==
    \E asset \in Assets, unpack \in BOOLEAN, l_unpack \in BOOLEAN :
        LET st == get_questions(asset, unpack)
        IN  /\ st.exc = ""
            /\ q_set(st, asset.survey, unpack,
                     IF unpack THEN get_choices(asset.choices) ELSE EmptyDict, "returned")
            /\ unlabeled_result = << >>
            /\ choice_lists = get_choices(asset.choices)
            /\ questions = st.root_group
            /\ l_unpack_multiples = l_unpack
            /\ meta = EmptyDict
            /\ results = EmptyDict
            /\ l_pc = "idle"
            /\ l_exc = ""
            /\ output = EmptyDict
            /\ calls = << >>
            /\ c_idle
            /\ s_idle

Finished == {"idle", "returned", "raised"}

\* label_result(RawResponses[n], choice_lists, questions, unpack_multiples) is called
StartCall(n) ==
    /\ l_pc \in Finished
    /\ Len(calls) < MaxCalls
    /\ unlabeled_result' = << >>
    /\ meta' = label_result_init.meta
    /\ results' = label_result_init.results
    /\ l_exc' = ""
    /\ l_pc' = "loop"
    /\ output' = EmptyDict
    /\ calls' = Append(calls, [response |-> n, pc |-> "loop", exc |-> "",
                               output |-> EmptyDict])
    /\ UNCHANGED <<q_vars, choice_lists, questions, l_unpack_multiples, c_vars, s_vars>>

FirstCall == calls = << >> /\ \E n \in DOMAIN RawResponses : StartCall(n)

\* a call with the response of an earlier call
CallAgain ==
    \E n \in DOMAIN RawResponses :
        (\E i \in DOMAIN calls : calls[i].response = n) /\ StartCall(n)

CallWithAnother ==
    \E n \in DOMAIN RawResponses :
        calls # << >> /\ (\A i \in DOMAIN calls : calls[i].response # n) /\ StartCall(n)

\* the response of the call that is running
Running == RawResponses[calls[Len(calls)].response]

\* one pass of the loop over the next item of the response
LabelItem ==
    /\ l_pc = "loop"
    /\ calls # << >>
    /\ Len(unlabeled_result) < Len(Running)
    /\ LET item == Running[Len(unlabeled_result) + 1]
           st   == label_result_step(l_state, item.key, item.value, questions,
                                     choice_lists, l_unpack_multiples)
       IN  /\ unlabeled_result' = Append(unlabeled_result, item)
           /\ meta' = st.meta
           /\ results' = st.results
           /\ l_exc' = st.exc
           /\ l_pc' = IF st.exc = "" THEN "loop" ELSE "raised"
           /\ calls' = IF st.exc = "" THEN calls
                       ELSE [calls EXCEPT ![Len(calls)].pc = "raised",
                                          ![Len(calls)].exc = st.exc]
    /\ UNCHANGED <<q_vars, choice_lists, questions, l_unpack_multiples, output, c_vars,
                   s_vars>>

\* return {'meta': meta, 'results': results}
ReturnP ==
    /\ l_pc = "loop"
    /\ calls # << >>
    /\ Len(unlabeled_result) = Len(Running)
    /\ l_pc' = "returned"
    /\ output' = [meta |-> meta, results |-> results]
    /\ calls' = [calls EXCEPT ![Len(calls)].pc = "returned",
                              ![Len(calls)].output = [meta |-> meta, results |-> results]]
    /\ UNCHANGED <<q_vars, unlabeled_result, choice_lists, questions, l_unpack_multiples,
                   meta, results, l_exc, c_vars, s_vars>>

NextP == FirstCall \/ CallAgain \/ CallWithAnother \/ LabelItem \/ ReturnP

SpecP == InitP /\ [][NextP]_vars

----------------------------------------------------------------------------
(* Properties of repeated calls of label_result, checked under SpecP *)

\* the schema and the ChoiceIndex are those get_questions and get_choices built
InputsIntact ==
    \E asset \in Assets :
        /\ survey = asset.survey
        /\ choice_lists = get_choices(asset.choices)
        /\ questions = get_questions(asset, unpack_multiples).root_group

\* the outcome of calls[i] is what a call with its arguments gives now
SameOutcomeNow(i) ==
    LET r == label_result(RawResponses[calls[i].response], choice_lists, questions,
                          l_unpack_multiples)
    IN  /\ r.exc = calls[i].exc
        /\ r.exc = "" => r.val = calls[i].output

Done(i) == calls[i].pc # "loop"

LabelResultRepeatable ==
    /\ InputsIntact
    /\ \A i \in DOMAIN unlabeled_result : unlabeled_result[i] = Running[i]
    /\ l_pc = "returned" => Len(unlabeled_result) = Len(Running)
    /\ \A i \in DOMAIN calls : Done(i) => SameOutcomeNow(i)
    /\ \A i, j \in DOMAIN calls :
           (Done(i) /\ Done(j) /\ calls[i].response = calls[j].response) =>
               /\ calls[i].exc = calls[j].exc
               /\ calls[i].output = calls[j].output

----------------------------------------------------------------------------
(* Group nesting in get_questions, checked under SpecQ *)

\* openers less closers among the first k elements
Depth(k) ==
    Cardinality({i \in 1 .. k : is_begin(survey[i])})
        - Cardinality({i \in 1 .. k : is_end(survey[i])})

\* no closer without an opener before it
NeverOverClosed == \A k \in DOMAIN survey : Depth(k) >= 0

\* the openers among the first k elements that no closer up to k matches
OpenBegins(k) ==
    {i \in 1 .. k : is_begin(survey[i]) /\ \A j \in i .. k : Depth(j) >= Depth(i)}

\* the codes of the groups open after k elements, outermost first: the path of
\* the innermost open group, << >> for the root
OpenPath(k) ==
    [d \in 1 .. Depth(k) |-> CodeOf(survey[CHOOSE i \in OpenBegins(k) : Depth(i) = d])]

\* the opener the closer at k matches
MatchingBegin(k) == CHOOSE i \in OpenBegins(k - 1) : Depth(i) = Depth(k - 1)

GroupCreated(qn, g) ==
    /\ g.repeat = (qn.type = "begin_repeat")
    /\ Has(g, "label") <=> Has(qn, "label")
    /\ Has(qn, "label") => g.label = qn.label[1]
    /\ ~Has(g, "groups") /\ ~Has(g, "questions")

\* C14: group nesting follows a stack discipline. After any element list in which
\* no closer lacks an opener: the current group is the innermost group open at that
\* point (the root when none is open, so the root after a balanced list), and
\* group_levels holds the root and the groups that were current at each open
\* opener. An opener has just created its group (repeat only for begin_repeat,
\* label only if it has one) in the child groups of the group current before it; a
\* closer has made current the group that was current before its opener; a question
\* has been put in the questions of the innermost open group, where, codes being
\* unique per group, every question of the list is found.
C14_GroupStack ==
    (q_exc = "" /\ NeverOverClosed) =>
        LET n == Len(survey)
        IN  /\ tmp_group = OpenPath(n)
            /\ HasGroupPath(root_group, tmp_group)
            /\ Depth(n) = 0 => tmp_group = << >>
            /\ Len(group_levels) = Depth(n) + 1
            /\ group_levels[1] = << >>
            /\ \A d \in 1 .. Depth(n) : group_levels[d + 1] = SubSeq(OpenPath(n), 1, d - 1)
            /\ n > 0 =>
                  LET qn == survey[n]
                      before == OpenPath(n - 1)
                  IN  /\ is_begin(qn) =>
                            /\ tmp_group = Append(before, CodeOf(qn))
                            /\ GroupCreated(qn, get_node(root_group, tmp_group))
                      /\ is_end(qn) =>
                            /\ tmp_group = OpenPath(MatchingBegin(n) - 1)
                            /\ tmp_group = Front(before)
                      /\ IsQuestionElement(qn) =>
                            /\ tmp_group = before
                            /\ HasQuestion(root_group, before, CodeOf(qn))
            /\ UniqueCodes =>
                  \A k \in 1 .. n :
                      IsQuestionElement(survey[k]) =>
                          HasQuestion(root_group, OpenPath(k - 1), CodeOf(survey[k]))

\* a question in a group that begin_group opened and end_repeat closed, then a
\* question in the root: the current group is the root again
C14_Witness ==
    /\ q_pc = "returned"
    /\ survey = <<BeginG, TextT, EndR, TextU>>
    /\ tmp_group = << >>
    /\ group_levels = << << >> >>
    /\ DOMAIN root_group.groups[<<"g">>].questions = {<<"t">>}
    /\ DOMAIN root_group.questions = {<<"u">>}

----------------------------------------------------------------------------
(* Choice sub-entries in get_questions, checked under SpecQ *)

ChoiceEntryKeys == {"label", "type", "sequence"}

\* the question q has one sub-entry per choice of the bucket, numbered behind q
\* in ascending order of the sequence the ChoiceIndex stores
ChoicesExpanded(q, bucket) ==
    LET codes == DOMAIN bucket.val
        n     == Cardinality(codes)
    IN  /\ Has(q, "choices")
        /\ DOMAIN q.choices = codes
        /\ \A c \in codes :
               /\ DOMAIN q.choices[c] = ChoiceEntryKeys
               /\ q.choices[c].type = "select_multiple_option"
               /\ q.choices[c].label = bucket.val[c].label
        /\ {q.choices[c].sequence : c \in codes} = (q.sequence + 1) .. (q.sequence + n)
        /\ \A c, d \in codes :
               bucket.val[c].sequence < bucket.val[d].sequence
                   => q.choices[c].sequence < q.choices[d].sequence

\* the 'other' sub-entry of q carries the value `seq`, or q has none
OtherExpanded(qn, q, seq) ==
    IF Has(qn, "or_other") /\ qn.or_other
    THEN /\ Has(q, "other")
         /\ q.other = [type |-> "_or_other", label |-> <<"O","t","h","e","r">>,
                       sequence |-> seq]
         /\ sequence = seq + 1
    ELSE /\ ~Has(q, "other")
         /\ sequence = seq

\* C15: with unpack_multiples a 'select_multiple' question just read has a 'choices'
\* map with exactly one sub-entry per choice of its list in the ChoiceIndex, of type
\* 'select_multiple_option', with the label of the choice, numbered with the values
\* that follow the question's own in ascending order of the sequence the
\* ChoiceIndex stores; a truthy '_or_other' adds the sub-entry 'other' (type
\* '_or_other', label 'Other') with the next value after the last choice
\* sub-entry. Without unpack_multiples no question gets a 'choices' map and the
\* ChoiceIndex is not read: a list without choices is no error.
C15_ChoiceExpansion ==
    /\ ~unpack_multiples => q_exc # "KeyError"
    /\ (q_exc = "" /\ survey # << >> /\ IsQuestionElement(Last(survey))) =>
          LET qn == Last(survey)
              q  == QuestionAt(root_group, tmp_group, CodeOf(qn))
          IN  /\ HasQuestion(root_group, tmp_group, CodeOf(qn))
              /\ (unpack_multiples /\ qn.type = "select_multiple") =>
                    LET bucket == choices[qn.select_from_list_name]
                    IN  /\ ChoicesExpanded(q, bucket)
                        /\ OtherExpanded(qn, q,
                                         q.sequence + 1 + Cardinality(DOMAIN bucket.val))
              /\ ~(unpack_multiples /\ qn.type = "select_multiple") =>
                    /\ ~Has(q, "choices")
                    /\ OtherExpanded(qn, q, q.sequence + 1)

\* list L, whose choice a was defined last: b, c, a follow the question m, then
\* 'other'; list N with the choice without label and no 'other'
C15_Witness ==
    /\ unpack_multiples
    /\ survey = <<TextT, ManyM, ManyN>>
    /\ root_group.questions[<<"m">>].sequence = 1
    /\ root_group.questions[<<"m">>].choices[<<"b">>].sequence = 2
    /\ root_group.questions[<<"m">>].choices[<<"c">>].sequence = 3
    /\ root_group.questions[<<"m">>].choices[<<"a">>].sequence = 4
    /\ root_group.questions[<<"m">>].other.sequence = 5
    /\ root_group.questions[<<"n">>].sequence = 6
    /\ root_group.questions[<<"n">>].choices[<<"a">>].label = None
    /\ ~Has(root_group.questions[<<"n">>], "other")
    /\ sequence = 9

====
